---------------------------- MODULE Spec2Model ----------------------------
(***************************************************************************)
(* Model of the analytical core of the air_quality package:                *)
(*   extremes.py   - identify_extremes_threshold,                          *)
(*                   identify_extremes_percentile,                         *)
(*                   identify_consecutive_exceedances                      *)
(*   statistics.py - calculate_aqi, calculate_daily_mean,                  *)
(*                   calculate_rolling_average, calculate_exceedance_count *)
(*   trends.py     - calculate_linear_trend                                *)
(*                                                                         *)
(* Numbers.  A Python float is modelled as a record [k, v]: k = "num" with *)
(* an exact fixed-point value v in hundredths (v = 1205 is 12.05), or      *)
(* k = "nan", "inf", "ninf".  Arithmetic is exact; binary rounding of the  *)
(* floats is not modelled.  The PM2.5 values of the tables are whole       *)
(* units (multiples of Scale), so that the linear interpolation of         *)
(* np.percentile at an integer percentile is exact in hundredths.  A mean  *)
(* is kept as the exact fraction [sum, n].                                 *)
(*                                                                         *)
(* Tables.  A DataFrame is [n, cols, Date, PM25]: n rows, the set of       *)
(* column names, and the two columns the core reads (<<>> when the column  *)
(* is absent).  Dates are day numbers, never missing.  The dates of a      *)
(* table are pairwise distinct (one observation per day, as the callers    *)
(* guarantee), so the date sort has one outcome; the rows are passed in    *)
(* ascending, descending or rotated date order.                            *)
(*                                                                         *)
(* Each behaviour is one call: a table (or a concentration) is drawn       *)
(* initially and one function is applied to it.  The functions copy        *)
(* before they add columns or sort, so the table is left as it was.        *)
(***************************************************************************)
EXTENDS Integers, Sequences, FiniteSets, TLC

VARIABLES df, tieRev, op, arg, result, dates, values

vars == <<df, tieRev, op, arg, result, dates, values>>

-----------------------------------------------------------------------------
(* Bounds of the model *)

MaxRows == 4
MaxDate == 4
MaxConc == 50200

(* The percentile scale 0..100; also the number of fixed-point steps per unit *)
Scale == 100

-----------------------------------------------------------------------------
(* Floats *)

Num(x) == [k |-> "num", v |-> x]
NaN == [k |-> "nan", v |-> 0]
PosInf == [k |-> "inf", v |-> 0]
NegInf == [k |-> "ninf", v |-> 0]

isnan(a) == a.k = "nan"

Rank(a) == IF a.k = "ninf" THEN -1 ELSE IF a.k = "inf" THEN 1 ELSE 0

(* a < b on floats: false whenever an operand is NaN *)
Lt(a, b) ==
    IF isnan(a) \/ isnan(b) THEN FALSE
    ELSE IF a.k = "num" /\ b.k = "num" THEN a.v < b.v
    ELSE Rank(a) < Rank(b)

Gt(a, b) == Lt(b, a)

(* a <= b on floats: false whenever an operand is NaN *)
Le(a, b) ==
    IF isnan(a) \/ isnan(b) THEN FALSE
    ELSE IF a.k = "num" /\ b.k = "num" THEN a.v <= b.v
    ELSE Rank(a) <= Rank(b)

-----------------------------------------------------------------------------
(* Outcomes of a call *)

NoResult == [kind |-> "none", exc |-> "", msg |-> "", val |-> <<>>]
Ok(x) == [kind |-> "ok", exc |-> "", msg |-> "", val |-> x]
Raise(e, m) == [kind |-> "err", exc |-> e, msg |-> m, val |-> <<>>]

-----------------------------------------------------------------------------
(* Sequences *)

(* a column holding the values of f: pandas computes a Series once, and   *)
(* so does the model, instead of at each access                            *)
Series(f) == <<>> \o f

RECURSIVE SelectIdx(_, _, _)
(* the indices i of 1..n with keep[i], ascending; called with i = 1 *)
SelectIdx(keep, n, i) ==
    IF i > n THEN <<>>
    ELSE IF keep[i] THEN <<i>> \o SelectIdx(keep, n, i + 1)
    ELSE SelectIdx(keep, n, i + 1)

(* lexicographic a < b on integer tuples of the same length *)
LexLess(a, b) ==
    \E i \in 1..Len(a) : a[i] < b[i] /\ \A j \in 1..(i - 1) : a[j] = b[j]

(* argsort of the key tuples, ascending; equal keys keep their order, or   *)
(* come out reversed when rev: the order of equal keys under an unstable   *)
(* sort kind depends on the numpy build                                    *)
argsort(keys, rev) ==
    LET n == Len(keys)
        before(j, i) ==
            \/ LexLess(keys[j], keys[i])
            \/ keys[j] = keys[i] /\ (IF rev THEN j > i ELSE j < i)
        pos(i) == Cardinality({j \in 1..n : before(j, i)}) + 1
    IN  Series([r \in 1..n |-> CHOOSE i \in 1..n : pos(i) = r])


-----------------------------------------------------------------------------
(* Tables *)

Columns == {"Date", "PM2.5", "City"}

Dates == 1..MaxDate

(* the PM2.5 values of a table: missing, or whole units; a monitor may     *)
(* report a negative concentration and nothing in the package rejects it   *)
PM25Values == {NaN, Num(-Scale), Num(Scale), Num(2 * Scale)}

(* df.empty: no row or no column *)
empty(d) == d.n = 0 \/ d.cols = {}

(* row i of the table, with its index label *)
Row(d, i) == [idx |-> i, Date |-> d.Date[i], PM25 |-> d.PM25[i]]

required_columns == <<"Date", "PM2.5">>

(* the first required column that is absent, "" when none is *)
missing_column(d) ==
    IF \E i \in 1..Len(required_columns) : required_columns[i] \notin d.cols
    THEN required_columns[CHOOSE i \in 1..Len(required_columns) :
                            /\ required_columns[i] \notin d.cols
                            /\ \A j \in 1..(i - 1) : required_columns[j] \in d.cols]
    ELSE ""

(* mutant: the ValueError the loader raises for a missing column *)
missing_column_value_error(col) == Raise("ValueError", col)

missing_column_error(col) == Raise("KeyError", col)

(* the checks of the table that follow the parameter check of each of the  *)
(* three functions; NoResult when the table passes                         *)
check_table(d) ==
    IF empty(d)
    THEN Raise("ValueError", "DataFrame cannot be empty")
    ELSE IF missing_column(d) # ""
    THEN missing_column_error(missing_column(d))
    ELSE NoResult

(* mutant: the table is examined before the threshold *)
check_table_then_threshold(d, threshold) ==
    IF check_table(d) # NoResult
    THEN check_table(d)
    ELSE IF Lt(threshold, Num(0))
    THEN Raise("ValueError", "Threshold must be non-negative")
    ELSE NoResult

(* the parameter and table checks of identify_extremes_threshold and of    *)
(* identify_consecutive_exceedances                                        *)
check_threshold_call(d, threshold) ==
    IF Lt(threshold, Num(0))
    THEN Raise("ValueError", "Threshold must be non-negative")
    ELSE check_table(d)

-----------------------------------------------------------------------------
(* extremes.py: identify_extremes_threshold *)

(* mutant: >= in place of > *)
exceeds_threshold_or_equal(value, threshold) == Le(threshold, value)

exceeds_threshold(value, threshold) == Gt(value, threshold)

identify_extremes_threshold(d, threshold, rev) ==
    IF check_threshold_call(d, threshold) # NoResult
    THEN check_threshold_call(d, threshold)
    ELSE
      LET mask == Series([i \in 1..d.n |-> exceeds_threshold(d.PM25[i], threshold)])
          kept == SelectIdx(mask, d.n, 1)
          extremes == Series([j \in 1..Len(kept) |-> Row(d, kept[j])])
          order == argsort([j \in 1..Len(kept) |-> <<-(extremes[j].PM25.v)>>], rev)
      IN  Ok([r \in 1..Len(kept) |-> extremes[order[r]]])

-----------------------------------------------------------------------------
(* extremes.py: identify_extremes_percentile *)

(* Series.dropna(): the non-missing values, in order *)
dropna(col) ==
    LET keep == [i \in 1..Len(col) |-> ~isnan(col[i])]
        kept == SelectIdx(keep, Len(col), 1)
    IN  Series([j \in 1..Len(kept) |-> col[kept[j]]])

(* mutant: method 'higher', the order statistic at or above the virtual   *)
(* index, not interpolated                                                 *)
np_percentile_higher(a, q) ==
    LET n == Len(a)
        order == argsort([i \in 1..n |-> <<a[i].v>>], FALSE)
        sorted == Series([r \in 1..n |-> a[order[r]].v])
        virtual == (q.v \div Scale) * (n - 1)
    IN  Num(sorted[((virtual + 99) \div 100) + 1])

(* np.percentile(a, q), method 'linear', for a non-empty a of numbers and  *)
(* a whole percentile q in 0..100: the virtual index q/100*(n-1) into the  *)
(* sorted values, interpolated between its two neighbours                  *)
np_percentile(a, q) ==
    LET n == Len(a)
        order == argsort([i \in 1..n |-> <<a[i].v>>], FALSE)
        sorted == Series([r \in 1..n |-> a[order[r]].v])
        virtual == (q.v \div Scale) * (n - 1)
        previous == (virtual \div 100) + 1
        next == IF previous + 1 > n THEN n ELSE previous + 1
        gamma == virtual % 100
    IN  Num(sorted[previous] + ((sorted[next] - sorted[previous]) * gamma) \div 100)

(* mutant: >= in place of > *)
above_percentile_or_equal(value, threshold_value) == Le(threshold_value, value)

above_percentile(value, threshold_value) == Gt(value, threshold_value)

percentile_in_range(percentile) ==
    Le(Num(0), percentile) /\ Le(percentile, Num(100 * Scale))

(* When every value is missing, np.percentile is handed an empty array:    *)
(* depending on the numpy version it returns nan (and no row is above nan) *)
(* or raises IndexError; emptyRaises chooses between the two               *)
identify_extremes_percentile(d, percentile, rev, emptyRaises) ==
    IF ~percentile_in_range(percentile)
    THEN Raise("ValueError", "Percentile must be between 0 and 100")
    ELSE IF check_table(d) # NoResult
    THEN check_table(d)
    ELSE IF Len(dropna(d.PM25)) = 0 /\ emptyRaises
    THEN Raise("IndexError", "index -1 is out of bounds for axis 0 with size 0")
    ELSE
      LET threshold_value == IF Len(dropna(d.PM25)) = 0 THEN NaN
                             ELSE np_percentile(dropna(d.PM25), percentile)
          mask == Series([i \in 1..d.n |-> above_percentile(d.PM25[i], threshold_value)])
          kept == SelectIdx(mask, d.n, 1)
          extremes == Series([j \in 1..Len(kept) |-> Row(d, kept[j])])
          order == argsort([j \in 1..Len(kept) |-> <<-(extremes[j].PM25.v)>>], rev)
      IN  Ok([r \in 1..Len(kept) |-> extremes[order[r]]])

-----------------------------------------------------------------------------
(* extremes.py: identify_consecutive_exceedances *)

RECURSIVE SumTo(_, _)
(* f[1] + ... + f[n] *)
SumTo(f, n) == IF n = 0 THEN 0 ELSE f[n] + SumTo(f, n - 1)

(* Series.cumsum() of a boolean column *)
cumsum(flags) ==
    Series([r \in 1..Len(flags) |-> Cardinality({s \in 1..r : flags[s]})])

(* the elements of a finite set of integers, ascending (groupby sorts its keys) *)
sorted_keys(S) ==
    [j \in 1..Cardinality(S) |->
        CHOOSE x \in S : Cardinality({y \in S : y < x}) = j - 1]

(* mutant: duration is the span of days from start to end *)
episode_duration_in_days(group) ==
    LET m == Len(group)
        vals == Series([j \in 1..m |-> group[j].PM25.v])
    IN  [start_date |-> group[1].Date,
         end_date   |-> group[m].Date,
         duration   |-> group[m].Date - group[1].Date + 1,
         max_pm25   |-> CHOOSE x \in {vals[j] : j \in 1..m} : \A j \in 1..m : vals[j] <= x,
         mean_pm25  |-> [sum |-> SumTo(vals, m), n |-> m]]

(* mutant: max_pm25 taken from the last day of the run *)
episode_max_of_last_day(group) ==
    LET m == Len(group)
        vals == Series([j \in 1..m |-> group[j].PM25.v])
    IN  [start_date |-> group[1].Date,
         end_date   |-> group[m].Date,
         duration   |-> m,
         max_pm25   |-> vals[m],
         mean_pm25  |-> [sum |-> SumTo(vals, m), n |-> m]]

(* the dict appended to results for one group (a sequence of rows) *)
episode(group) ==
    LET m == Len(group)
        vals == Series([j \in 1..m |-> group[j].PM25.v])
    IN  [start_date |-> group[1].Date,
         end_date   |-> group[m].Date,
         duration   |-> m,
         max_pm25   |-> CHOOSE x \in {vals[j] : j \in 1..m} :
                            \A j \in 1..m : vals[j] <= x,
         mean_pm25  |-> [sum |-> SumTo(vals, m), n |-> m]]

(* mutant: max_pm25 ascending *)
episode_key_max_ascending(e) == <<-(e.duration), e.max_pm25>>

(* the sort keys of result_df.sort_values(['duration', 'max_pm25'],        *)
(* ascending=[False, False])                                               *)
episode_key(e) == <<-(e.duration), -(e.max_pm25)>>

(* mutant: the rows are taken in the order they were passed in *)
sort_by_date_omitted(d) == [i \in 1..d.n |-> i]

(* df.sort_values('Date'): the row indices in ascending date order *)
sort_by_date(d) == argsort([i \in 1..d.n |-> <<d.Date[i]>>], FALSE)

(* sequence_starts (line 172) is computed by the code and never read *)
identify_consecutive_exceedances(d, threshold) ==
    IF check_threshold_call(d, threshold) # NoResult
    THEN check_threshold_call(d, threshold)
    ELSE
      LET n == d.n
          by_date == sort_by_date(d)
          df_sorted == Series([r \in 1..n |-> Row(d, by_date[r])])
          exceeds == Series([r \in 1..n |-> Gt(df_sorted[r].PM25, threshold)])
          shifted == Series([r \in 1..n |-> IF r = 1 THEN FALSE ELSE exceeds[r - 1]])
          sequence_changes == Series([r \in 1..n |-> exceeds[r] # shifted[r]])
          sequence_ids == cumsum(sequence_changes)
          kept == SelectIdx(exceeds, n, 1)
      IN  IF Len(kept) = 0 THEN Ok(<<>>)
          ELSE
            LET keys == sorted_keys({sequence_ids[kept[j]] : j \in 1..Len(kept)})
                group(id) ==
                    LET members == SelectIdx(
                            [r \in 1..n |-> exceeds[r] /\ sequence_ids[r] = id], n, 1)
                    IN  Series([j \in 1..Len(members) |-> df_sorted[members[j]]])
                results == Series([g \in 1..Len(keys) |-> episode(group(keys[g]))])
                order == argsort([g \in 1..Len(keys) |-> episode_key(results[g])], FALSE)
            IN  Ok([r \in 1..Len(keys) |-> results[order[r]]])

-----------------------------------------------------------------------------
(* The tables the detector is called on *)

(* the date columns with n rows: n distinct days in ascending order, in    *)
(* descending order, or ascending and rotated by one row                   *)
DateColumns(n) ==
    LET ascending == {ds \in [1..n -> Dates] : \A i \in 1..(n - 1) : ds[i] < ds[i + 1]}
    IN  UNION {{ds,
                [i \in 1..n |-> ds[n + 1 - i]],
                [i \in 1..n |-> ds[(i % n) + 1]]} : ds \in ascending}

(* tables with both required columns *)
FullTables ==
    UNION {{[n |-> n, cols |-> {"Date", "PM2.5"}, Date |-> ds, PM25 |-> vs] :
              ds \in DateColumns(n), vs \in [1..n -> PM25Values]} : n \in 0..MaxRows}

(* tables lacking a required column *)
PartialTables ==
    {[n |-> n, cols |-> c,
      Date |-> IF "Date" \in c THEN [i \in 1..n |-> i] ELSE <<>>,
      PM25 |-> IF "PM2.5" \in c THEN [i \in 1..n |-> Num(Scale)] ELSE <<>>] :
        n \in 0..MaxRows, c \in (SUBSET Columns) \ {S \in SUBSET Columns : {"Date", "PM2.5"} \subseteq S}}

Tables == FullTables \cup PartialTables

Thresholds == {Num(-Scale), Num(0), Num(Scale)}

Percentiles == {Num(p * Scale) : p \in {-1, 0, 25, 50, 75, 100, 101}}

-----------------------------------------------------------------------------
(* Table objects.  A call works on two tables, the caller's and a new one; *)
(* a name of the function refers to one of them, and an assignment to a    *)
(* column changes the table the name refers to.                            *)

heap_of(d) == [caller |-> d, new |-> d]

(* mutant: the name is bound to the table itself, no copy is made *)
copy_aliased(heap, ref) == [heap |-> heap, ref |-> ref]

(* df.copy(): a new table with the content of the one referred to *)
copy(heap, ref) == [heap |-> [heap EXCEPT !.new = heap[ref]], ref |-> "new"]

(* df.sort_values('Date'), not in place: a new table, rows reordered *)
sort_values(heap, ref, order) ==
    LET d == heap[ref]
    IN  [heap |-> [heap EXCEPT !.new =
                      [d EXCEPT !.Date = Series([r \in 1..d.n |-> d.Date[order[r]]]),
                                !.PM25 = Series([r \in 1..d.n |-> d.PM25[order[r]]])]],
         ref |-> "new"]

(* df[col] = ...: the table referred to gains, or has replaced, the column *)
set_column(heap, ref, col) == [heap EXCEPT ![ref].cols = @ \cup {col}]

(* the caller's table when identify_extremes_threshold or                  *)
(* identify_extremes_percentile is left: they select, copy and sort into   *)
(* new tables and assign no column                                         *)
caller_after_extremes(d) == heap_of(d).caller

(* the caller's table when identify_consecutive_exceedances is left *)
caller_after_consecutive(d, threshold) ==
    IF check_threshold_call(d, threshold) # NoResult THEN d
    ELSE LET sorted == sort_values(heap_of(d), "caller", sort_by_date(d))
             df_sorted == copy(sorted.heap, sorted.ref)
         IN  set_column(set_column(df_sorted.heap, df_sorted.ref, "sequence_id"),
                        df_sorted.ref, "exceeds").caller

-----------------------------------------------------------------------------
(* The detector as a state machine: a table, one call on it, its outcome *)

Init ==
    /\ df \in Tables
    /\ tieRev \in BOOLEAN
    /\ op = "none"
    /\ arg = NaN
    /\ result = NoResult
    /\ dates = <<>>
    /\ values = <<>>

ByThreshold ==
    \E t \in Thresholds :
        /\ op = "none"
        /\ op' = "by_threshold"
        /\ arg' = t
        /\ result' = identify_extremes_threshold(df, t, tieRev)
        /\ df' = caller_after_extremes(df)
        /\ UNCHANGED <<tieRev, dates, values>>

ByPercentile ==
    \E p \in Percentiles, emptyRaises \in BOOLEAN :
        /\ op = "none"
        /\ op' = "by_percentile"
        /\ arg' = p
        /\ result' = identify_extremes_percentile(df, p, tieRev, emptyRaises)
        /\ df' = caller_after_extremes(df)
        /\ UNCHANGED <<tieRev, dates, values>>

ConsecutiveRuns ==
    \E t \in Thresholds :
        /\ op = "none"
        /\ op' = "consecutive_runs"
        /\ arg' = t
        /\ result' = identify_consecutive_exceedances(df, t)
        /\ df' = caller_after_consecutive(df, t)
        /\ UNCHANGED <<tieRev, dates, values>>

Next == ByThreshold \/ ByPercentile \/ ConsecutiveRuns

Spec == Init /\ [][Next]_vars

-----------------------------------------------------------------------------
(* Vocabulary of the properties of the detector.  These are stated on the  *)
(* table and the outcome alone, not on the intermediate values of the code *)

HasBothColumns == {"Date", "PM2.5"} \subseteq df.cols

ValidThreshold == Le(Num(0), arg)

ValidPercentile == Le(Num(0), arg) /\ Le(arg, Num(100 * Scale))

Returned(o) == op = o /\ result.kind = "ok"

(* row i exceeds the threshold of the call; a missing value does not *)
Exceeding(i) == df.PM25[i].k = "num" /\ arg.k = "num" /\ df.PM25[i].v > arg.v

(* the rows dated before, and after, row i *)
Earlier(i) == {j \in 1..df.n : df.Date[j] < df.Date[i]}
Later(i) == {j \in 1..df.n : df.Date[j] > df.Date[i]}

(* the row next before row i in date order, for a row that has one *)
Previous(i) == CHOOSE j \in Earlier(i) : \A k \in Earlier(i) : df.Date[k] <= df.Date[j]
Following(i) == CHOOSE j \in Later(i) : \A k \in Later(i) : df.Date[k] >= df.Date[j]

(* the rows a returned episode spans *)
RowsOf(e) == {i \in 1..df.n : e.start_date <= df.Date[i] /\ df.Date[i] <= e.end_date}

(* the rows at which the exceed-mask turns from false to true, in date order *)
RunStarts == {i \in 1..df.n : Exceeding(i) /\ (Earlier(i) = {} \/ ~Exceeding(Previous(i)))}

RECURSIVE SumOver(_, _)
(* the sum of f[i] over the finite set S *)
SumOver(f, S) ==
    IF S = {} THEN 0
    ELSE LET x == CHOOSE y \in S : TRUE IN f[x] + SumOver(f, S \ {x})

(* C1: for every episode consecutive_runs returns,                         *)
(* duration = (end_date - start_date) in days + 1                          *)
C1_DurationIsDaySpan ==
    Returned("consecutive_runs") =>
        \A e \in 1..Len(result.val) :
            result.val[e].duration = result.val[e].end_date - result.val[e].start_date + 1

(* C2: consecutive_runs partitions the exceeding rows into maximal runs of *)
(* the date order: every exceeding row lies in exactly one episode, every  *)
(* row an episode spans exceeds, the rows next before its start and next   *)
(* after its end do not; there are as many episodes as false-to-true       *)
(* transitions of the mask, and the durations sum to the number of         *)
(* exceeding rows                                                          *)
C2_MaximalRuns ==
    (op = "consecutive_runs" /\ ValidThreshold /\ ~empty(df) /\ HasBothColumns) =>
        /\ result.kind = "ok"
        /\ LET eps == result.val
               E == 1..Len(eps)
           IN  /\ \A i \in 1..df.n :
                     Exceeding(i) => Cardinality({e \in E : i \in RowsOf(eps[e])}) = 1
               /\ \A e \in E :
                     /\ \A i \in RowsOf(eps[e]) : Exceeding(i)
                     /\ \E i \in RowsOf(eps[e]) :
                           /\ df.Date[i] = eps[e].start_date
                           /\ Earlier(i) # {} => ~Exceeding(Previous(i))
                     /\ \E i \in RowsOf(eps[e]) :
                           /\ df.Date[i] = eps[e].end_date
                           /\ Later(i) # {} => ~Exceeding(Following(i))
               /\ Len(eps) = Cardinality(RunStarts)
               /\ SumOver([e \in E |-> eps[e].duration], E)
                     = Cardinality({i \in 1..df.n : Exceeding(i)})

(* a table passed out of date order, with a missing value, that has two runs *)
C2_Witness ==
    /\ Returned("consecutive_runs")
    /\ Len(result.val) >= 2
    /\ \E i \in 1..(df.n - 1) : df.Date[i] > df.Date[i + 1]
    /\ \E i \in 1..df.n : isnan(df.PM25[i])

(* C3: the episodes come ordered by duration descending, and by maximum    *)
(* value descending among episodes of the same duration                    *)
C3_EpisodeOrder ==
    Returned("consecutive_runs") =>
        \A e \in 1..(Len(result.val) - 1) :
            \/ result.val[e].duration > result.val[e + 1].duration
            \/ /\ result.val[e].duration = result.val[e + 1].duration
               /\ result.val[e].max_pm25 >= result.val[e + 1].max_pm25

(* the longer episode is the later one: the sort has moved it to the front *)
C3_Witness ==
    /\ Returned("consecutive_runs")
    /\ Len(result.val) >= 2
    /\ result.val[1].duration > result.val[2].duration
    /\ result.val[1].start_date > result.val[2].end_date

OrderStatistic(k) ==
    LET P == {i \in 1..df.n : ~isnan(df.PM25[i])}
        below(i) == {j \in P : \/ df.PM25[j].v < df.PM25[i].v
                               \/ df.PM25[j].v = df.PM25[i].v /\ j < i}
    IN  df.PM25[CHOOSE i \in P : Cardinality(below(i)) = k - 1].v

NonMissing == Cardinality({i \in 1..df.n : ~isnan(df.PM25[i])})

(* the percentile of the call (a whole number of percent) of the           *)
(* non-missing values, interpolated linearly between order statistics, in  *)
(* hundredths; for a table with a non-missing value                        *)
Cutoff ==
    LET h == (arg.v \div Scale) * (NonMissing - 1)
        lo == (h \div 100) + 1
        hi == IF lo < NonMissing THEN lo + 1 ELSE lo
    IN  (OrderStatistic(lo) * (100 - (h % 100)) + OrderStatistic(hi) * (h % 100)) \div 100

(* the returned rows are rows of the table, each at most once, in          *)
(* non-increasing order of value                                           *)
RowsDescending ==
    /\ \A r \in 1..Len(result.val) :
          /\ result.val[r].idx \in 1..df.n
          /\ result.val[r] = Row(df, result.val[r].idx)
    /\ \A r, q \in 1..Len(result.val) : r # q => result.val[r].idx # result.val[q].idx
    /\ \A r \in 1..(Len(result.val) - 1) : result.val[r].PM25.v >= result.val[r + 1].PM25.v

(* C5: on a non-empty series and a threshold t >= 0, by_threshold returns  *)
(* exactly the rows whose value is strictly greater than t, each once, in  *)
(* non-increasing order of value                                           *)
C5_ThresholdRows ==
    (op = "by_threshold" /\ ValidThreshold /\ ~empty(df) /\ HasBothColumns) =>
        /\ result.kind = "ok"
        /\ RowsDescending
        /\ \A i \in 1..df.n :
              Exceeding(i) <=> \E r \in 1..Len(result.val) : result.val[r].idx = i

(* several rows returned, a row equal to the threshold and a missing one left out *)
C5_Witness ==
    /\ Returned("by_threshold")
    /\ Len(result.val) >= 2
    /\ \E i \in 1..df.n : df.PM25[i] = arg
    /\ \E i \in 1..df.n : isnan(df.PM25[i])

(* C6, as claimed: on a non-empty series and a percentile p in [0,100],    *)
(* by_percentile behaves as by_threshold called with the p-th percentile   *)
(* c of the non-missing values: same outcome kind and same rows in order   *)
C6_PercentileAsThreshold ==
    (op = "by_percentile" /\ ValidPercentile /\ ~empty(df) /\ HasBothColumns
        /\ NonMissing > 0) =>
        /\ result.kind = identify_extremes_threshold(df, Num(Cutoff), tieRev).kind
        /\ result.val = identify_extremes_threshold(df, Num(Cutoff), tieRev).val

(* C6, amended: the same, whenever the cutoff c is not negative *)
C6_PercentileAsThresholdNonNegative ==
    (op = "by_percentile" /\ ValidPercentile /\ ~empty(df) /\ HasBothColumns
        /\ NonMissing > 0 /\ Cutoff >= 0) =>
        /\ result.kind = "ok"
        /\ RowsDescending
        /\ \A i \in 1..df.n :
              (df.PM25[i].k = "num" /\ df.PM25[i].v > Cutoff)
                  <=> \E r \in 1..Len(result.val) : result.val[r].idx = i
        /\ result = identify_extremes_threshold(df, Num(Cutoff), tieRev)

(* a cutoff strictly between two order statistics, with rows above it *)
C6_Witness ==
    /\ Returned("by_percentile")
    /\ NonMissing >= 2
    /\ Cutoff >= 0
    /\ \A i \in 1..df.n : df.PM25[i] # Num(Cutoff)
    /\ Len(result.val) >= 1

(* the number of rows by_percentile returns for the table at percentile q *)
CountAt(q) == Len(identify_extremes_percentile(df, q, tieRev, FALSE).val)

(* C7: for a fixed series the number of rows by_percentile returns does    *)
(* not increase with the percentile; at 100 no row is returned, and a row  *)
(* holding the minimum value is never returned                             *)
C7_CountNonIncreasing ==
    Returned("by_percentile") =>
        /\ \A q \in Percentiles :
              /\ (Le(Num(0), q) /\ Le(q, arg)) => CountAt(q) >= Len(result.val)
              /\ (Le(arg, q) /\ Le(q, Num(100 * Scale))) => CountAt(q) <= Len(result.val)
        /\ arg = Num(100 * Scale) => Len(result.val) = 0
        /\ \A r \in 1..Len(result.val) :
              \E i \in 1..df.n : df.PM25[i].k = "num" /\ df.PM25[i].v < result.val[r].PM25.v

(* a percentile below 100 that returns rows, and fewer than percentile 0 does *)
C7_Witness ==
    /\ Returned("by_percentile")
    /\ Len(result.val) >= 1
    /\ Len(result.val) < CountAt(Num(0))

(* C8: an out-of-domain parameter is reported whatever the table is: a     *)
(* threshold < 0 by by_threshold and consecutive_runs, a percentile        *)
(* outside [0,100] by by_percentile; with a valid parameter a series       *)
(* without rows makes all three fail                                       *)
C8_ParameterCheckedFirst ==
    /\ (op \in {"by_threshold", "consecutive_runs"} /\ Lt(arg, Num(0))) =>
          result = Raise("ValueError", "Threshold must be non-negative")
    /\ (op = "by_percentile" /\ ~ValidPercentile) =>
          result = Raise("ValueError", "Percentile must be between 0 and 100")
    /\ (op = "by_threshold" /\ ValidThreshold /\ df.n = 0) => result.kind = "err"
    /\ (op = "consecutive_runs" /\ ValidThreshold /\ df.n = 0) => result.kind = "err"
    /\ (op = "by_percentile" /\ ValidPercentile /\ df.n = 0) => result.kind = "err"

(* a negative threshold passed with a table that has no row and no value column *)
C8_Witness ==
    /\ op = "consecutive_runs"
    /\ Lt(arg, Num(0))
    /\ df.n = 0
    /\ "PM2.5" \notin df.cols
    /\ result.msg = "Threshold must be non-negative"

(* C9, as claimed: with a valid parameter, a table lacking the date or the *)
(* value column makes all three fail with KeyError, a table without rows   *)
(* included                                                                *)
C9_MissingColumnAlways ==
    (/\ op \in {"by_threshold", "consecutive_runs"} => ValidThreshold
     /\ op = "by_percentile" => ValidPercentile
     /\ op # "none"
     /\ ~HasBothColumns) =>
        result.kind = "err" /\ result.exc = "KeyError"

(* C9, amended: the same for every such table that has a row and a column; *)
(* the KeyError names the first absent one of Date, PM2.5                  *)
C9_MissingColumnNonEmpty ==
    (/\ op \in {"by_threshold", "consecutive_runs"} => ValidThreshold
     /\ op = "by_percentile" => ValidPercentile
     /\ op # "none"
     /\ ~HasBothColumns
     /\ df.n > 0 /\ df.cols # {}) =>
        /\ result.kind = "err" /\ result.exc = "KeyError"
        /\ result.msg = (IF "Date" \notin df.cols THEN "Date" ELSE "PM2.5")

(* a table with rows and the value column but no date column *)
C9_Witness ==
    /\ op = "by_percentile"
    /\ ValidPercentile
    /\ df.n > 0
    /\ df.cols = {"PM2.5", "City"}
    /\ result.exc = "KeyError"

-----------------------------------------------------------------------------
(* statistics.py: calculate_aqi *)

(* EPA PM2.5 breakpoints, concentrations in hundredths of a ug/m3 *)
breakpoints ==
    << [c_low |-> 0, c_high |-> 1200, i_low |-> 0, i_high |-> 50,
        category |-> "Good", color |-> "#00E400",
        message |-> "Air quality is satisfactory."],
       [c_low |-> 1210, c_high |-> 3540, i_low |-> 51, i_high |-> 100,
        category |-> "Moderate", color |-> "#FFFF00",
        message |-> "Acceptable for most, but sensitive groups may be affected."],
       [c_low |-> 3550, c_high |-> 5540, i_low |-> 101, i_high |-> 150,
        category |-> "Unhealthy for Sensitive Groups", color |-> "#FF7E00",
        message |-> "Sensitive groups may experience health effects."],
       [c_low |-> 5550, c_high |-> 15040, i_low |-> 151, i_high |-> 200,
        category |-> "Unhealthy", color |-> "#FF0000",
        message |-> "Everyone may begin to experience health effects."],
       [c_low |-> 15050, c_high |-> 25040, i_low |-> 201, i_high |-> 300,
        category |-> "Very Unhealthy", color |-> "#8F3F97",
        message |-> "Health alert: everyone may experience serious effects."],
       [c_low |-> 25050, c_high |-> 50040, i_low |-> 301, i_high |-> 500,
        category |-> "Hazardous", color |-> "#7E0023",
        message |-> "Health warnings of emergency conditions."] >>

(* int(round(num / den)) for num >= 0, den > 0: Python rounds a half to    *)
(* the even neighbour                                                      *)
round_half_even(num, den) ==
    LET q == num \div den
        r == num % den
    IN  IF 2 * r < den THEN q
        ELSE IF 2 * r > den THEN q + 1
        ELSE IF q % 2 = 0 THEN q ELSE q + 1

(* mutant: the band's lowest index is not added *)
interpolate_without_i_low(b, c) ==
    round_half_even((b.i_high - b.i_low) * (c - b.c_low), b.c_high - b.c_low)

(* the linear interpolation inside band b, rounded *)
interpolate(b, c) ==
    round_half_even((b.i_high - b.i_low) * (c - b.c_low) + b.i_low * (b.c_high - b.c_low),
                    b.c_high - b.c_low)

(* mutant: the upper bound of a band is exclusive *)
in_band_upper_exclusive(b, pm25_value) ==
    Le(Num(b.c_low), pm25_value) /\ Lt(pm25_value, Num(b.c_high))

(* c_low <= pm25_value <= c_high *)
in_band(b, pm25_value) == Le(Num(b.c_low), pm25_value) /\ Le(pm25_value, Num(b.c_high))

(* mutant: the top band's line is extended beyond its upper bound *)
above_all_breakpoints_extrapolated(pm25_value) ==
    [aqi |-> interpolate(breakpoints[Len(breakpoints)], pm25_value.v),
     category |-> "Hazardous",
     color |-> "#7E0023",
     health_message |-> "Health warnings of emergency conditions. Entire population more likely to be affected."]

(* the dict returned above all breakpoints: Hazardous with max AQI *)
above_all_breakpoints(pm25_value) ==
    [aqi |-> 500,
     category |-> "Hazardous",
     color |-> "#7E0023",
     health_message |-> "Health warnings of emergency conditions. Entire population more likely to be affected."]

calculate_aqi(pm25_value) ==
    IF isnan(pm25_value) \/ Lt(pm25_value, Num(0))
    THEN Raise("ValueError", "Invalid PM2.5 value")
    ELSE IF \E i \in 1..Len(breakpoints) : in_band(breakpoints[i], pm25_value)
    THEN LET i == CHOOSE i \in 1..Len(breakpoints) :
                      /\ in_band(breakpoints[i], pm25_value)
                      /\ \A j \in 1..(i - 1) : ~in_band(breakpoints[j], pm25_value)
             b == breakpoints[i]
         IN  Ok([aqi |-> interpolate(b, pm25_value.v),
                 category |-> b.category,
                 color |-> b.color,
                 health_message |-> b.message])
    ELSE IF Gt(pm25_value, Num(50040))
    THEN Ok(above_all_breakpoints(pm25_value))
    ELSE Raise("ValueError", "Unable to calculate AQI")

(* the concentrations classify is called on: every hundredth from -1.00 to *)
(* MaxConc hundredths, not-a-number and the two infinities                 *)
Concentrations == {Num(c) : c \in (-Scale)..MaxConc} \cup {NaN, PosInf, NegInf}

InitAqi ==
    /\ df = [n |-> 0, cols |-> {}, Date |-> <<>>, PM25 |-> <<>>]
    /\ tieRev = FALSE
    /\ op = "none"
    /\ arg \in Concentrations
    /\ result = NoResult
    /\ dates = <<>>
    /\ values = <<>>

(* the call on the concentration drawn initially *)
Classify ==
    /\ op = "none"
    /\ op' = "calculate_aqi"
    /\ result' = calculate_aqi(arg)
    /\ UNCHANGED <<df, tieRev, arg, dates, values>>

NextAqi == Classify

SpecAqi == InitAqi /\ [][NextAqi]_vars

(* C10: classify returns an AQIResult for every finite concentration >= 0; *)
(* no concentration in [0, 500.4] falls between two bands                  *)
C10_ClassifyTotal ==
    (op = "calculate_aqi" /\ arg.k = "num" /\ arg.v >= 0) => result.kind = "ok"

(* the published boundary concentrations (hundredths), with the category   *)
(* and index each is to get                                                *)
Boundaries ==
    { <<0, "Good", 0>>, <<1200, "Good", 50>>,
      <<1210, "Moderate", 51>>, <<3540, "Moderate", 100>>,
      <<3550, "Unhealthy for Sensitive Groups", 101>>,
      <<5540, "Unhealthy for Sensitive Groups", 150>>,
      <<5550, "Unhealthy", 151>>, <<15040, "Unhealthy", 200>>,
      <<15050, "Very Unhealthy", 201>>, <<25040, "Very Unhealthy", 300>>,
      <<25050, "Hazardous", 301>>, <<50040, "Hazardous", 500>> }

C12_ClampAboveTop ==
    (op = "calculate_aqi" /\ Gt(arg, Num(50040))) =>
        /\ result.kind = "ok"
        /\ result.val.category = "Hazardous"
        /\ result.val.aqi = 500

(* a call well above the top band *)
C12_Witness ==
    /\ op = "calculate_aqi"
    /\ arg.k = "num" /\ arg.v > 50040 + Scale
    /\ result.kind = "ok"

(* C13: classify fails with ValueError for every concentration that is not *)
(* a finite non-negative number: negative, not-a-number, either infinity   *)
C13_RejectsNonFinite ==
    (op = "calculate_aqi" /\ ~(arg.k = "num" /\ arg.v >= 0)) =>
        result.kind = "err" /\ result.exc = "ValueError"

(* the index sub-range, colour and message of each category *)
Categories ==
    { <<"Good", 0, 50, "#00E400", "Air quality is satisfactory.">>,
      <<"Moderate", 51, 100, "#FFFF00",
        "Acceptable for most, but sensitive groups may be affected.">>,
      <<"Unhealthy for Sensitive Groups", 101, 150, "#FF7E00",
        "Sensitive groups may experience health effects.">>,
      <<"Unhealthy", 151, 200, "#FF0000",
        "Everyone may begin to experience health effects.">>,
      <<"Very Unhealthy", 201, 300, "#8F3F97",
        "Health alert: everyone may experience serious effects.">>,
      <<"Hazardous", 301, 500, "#7E0023", "Health warnings of emergency conditions.">> }

(* the index lies in the sub-range of the returned category, and the       *)
(* colour is that category's                                               *)
IndexInCategory ==
    \E c \in Categories :
        /\ result.val.category = c[1]
        /\ c[2] <= result.val.aqi /\ result.val.aqi <= c[3]
        /\ result.val.color = c[4]

(* the message is that of the returned category *)
MessageOfCategory ==
    \E c \in Categories : result.val.category = c[1] /\ result.val.health_message = c[5]

(* the index does not decrease from this concentration to the next ones    *)
(* classify returns a result for (the gaps between bands are 9 wide)       *)
IndexNonDecreasing ==
    arg.k = "num" =>
        \A k \in 1..10 :
            calculate_aqi(Num(arg.v + k)).kind = "ok" =>
                calculate_aqi(Num(arg.v + k)).val.aqi >= result.val.aqi

(* C14, as claimed: whenever classify returns, the index lies in the       *)
(* sub-range of the returned category, colour and health message are       *)
(* those of that band, and the index is non-decreasing in the              *)
(* concentration                                                           *)
C14_ResultOfOneBand ==
    (op = "calculate_aqi" /\ result.kind = "ok") =>
        IndexInCategory /\ MessageOfCategory /\ IndexNonDecreasing

(* C14, amended: the same, the health message being that of the band for   *)
(* a concentration inside a band, and the Hazardous message followed by a  *)
(* second sentence for a concentration above 500.4                         *)
C14_ResultOfOneBandOrClamp ==
    (op = "calculate_aqi" /\ result.kind = "ok") =>
        /\ IndexInCategory
        /\ IndexNonDecreasing
        /\ Le(arg, Num(50040)) => MessageOfCategory
        /\ Gt(arg, Num(50040)) =>
              result.val.health_message = "Health warnings of emergency conditions. Entire population more likely to be affected."

(* a concentration inside a band, whose index is strictly inside the sub-range *)
C14_Witness ==
    /\ op = "calculate_aqi"
    /\ arg = Num(7904)
    /\ result.kind = "ok"
    /\ result.val.category = "Unhealthy"
    /\ 151 < result.val.aqi /\ result.val.aqi < 200

-----------------------------------------------------------------------------
(* statistics.py: calculate_daily_mean, calculate_rolling_average,         *)
(* calculate_exceedance_count over an array of values                      *)

MaxLen == 4

(* mutant: the missing values are left in the array *)
remove_nan_omitted(values_array) == values_array

(* values_array[~np.isnan(values_array)] *)
remove_nan(values_array) == SelectSeq(values_array, LAMBDA x : ~isnan(x))

(* np.any(np.isnan(a)) *)
np_any_isnan(a) == \E i \in 1..Len(a) : isnan(a[i])

(* np.mean of a non-empty array: missing when an entry is missing, else    *)
(* the sum over the length                                                 *)
np_mean(a) ==
    IF np_any_isnan(a) THEN NaN
    ELSE Num(SumTo([i \in 1..Len(a) |-> a[i].v], Len(a)) \div Len(a))

calculate_daily_mean(vals) ==
    IF Len(vals) = 0
    THEN Raise("ValueError", "Cannot calculate mean of empty array")
    ELSE LET values_clean == remove_nan(vals)
         IN  IF Len(values_clean) = 0
             THEN Raise("ValueError", "Cannot calculate mean: all values are NaN")
             ELSE Ok(np_mean(values_clean))

(* mutant: a window as long as the array is refused *)
window_too_large_or_equal(window, length) == window >= length

(* window > len(values_array) *)
window_too_large(window, length) == window > length

(* mutant: the window starts at entry i instead of ending there *)
window_values_ahead(values_array, i, window) ==
    SubSeq(values_array, i, IF i + window - 1 > Len(values_array)
                            THEN Len(values_array) ELSE i + window - 1)

(* values_array[i - window + 1:i + 1], positions counted from 1 *)
window_values_at(values_array, i, window) == SubSeq(values_array, i - window + 1, i)

(* np.any(np.isnan(window_values)) *)
window_has_nan(window_values) == np_any_isnan(window_values)

calculate_rolling_average(vals, window) ==
    IF window < 1
    THEN Raise("ValueError", "Window size must be at least 1")
    ELSE IF window_too_large(window, Len(vals))
    THEN Raise("ValueError", "Window size cannot be larger than array length")
    ELSE Ok(Series([i \in 1..Len(vals) |->
                IF i < window THEN NaN
                ELSE LET window_values == window_values_at(vals, i, window)
                     IN  IF window_has_nan(window_values) THEN NaN
                         ELSE np_mean(window_values)]))

(* mutant: a value equal to the threshold is counted *)
values_clean_ge(value, threshold) == ~Lt(value, threshold)

(* values_clean > threshold, for one entry *)
values_clean_gt(value, threshold) == Gt(value, threshold)

calculate_exceedance_count(vals, threshold) ==
    LET values_clean == remove_nan(vals)
    IN  Ok(Cardinality({i \in 1..Len(values_clean) :
                            values_clean_gt(values_clean[i], threshold)}))

(* input values: missing, or a multiple of 60 (so that every mean of up to *)
(* six of them is exact in hundredths), negative, zero and positive        *)
StatValues == {NaN} \cup {Num(60 * k * Scale) : k \in -1..2}

Arrays == UNION {[1..n -> StatValues] : n \in 0..MaxLen}

Windows == -1..(MaxLen + 1)

StatThresholds == {Num(-60 * Scale), Num(-Scale), Num(0), Num(60 * Scale), Num(90 * Scale)}

InitStats ==
    /\ df = [n |-> 0, cols |-> {}, Date |-> <<>>, PM25 |-> <<>>]
    /\ tieRev = FALSE
    /\ op = "none"
    /\ arg = NaN
    /\ result = NoResult
    /\ dates = <<>>
    /\ values \in Arrays

DailyMean ==
    /\ op = "none"
    /\ op' = "calculate_daily_mean"
    /\ result' = calculate_daily_mean(values)
    /\ UNCHANGED <<df, tieRev, arg, dates, values>>

RollingAverage ==
    /\ op = "none"
    /\ \E window \in Windows :
        /\ arg' = Num(window * Scale)
        /\ result' = calculate_rolling_average(values, window)
    /\ op' = "calculate_rolling_average"
    /\ UNCHANGED <<df, tieRev, dates, values>>

ExceedanceCount ==
    /\ op = "none"
    /\ \E threshold \in StatThresholds :
        /\ arg' = threshold
        /\ result' = calculate_exceedance_count(values, threshold)
    /\ op' = "calculate_exceedance_count"
    /\ UNCHANGED <<df, tieRev, dates, values>>

NextStats == DailyMean \/ RollingAverage \/ ExceedanceCount

SpecStats == InitStats /\ [][NextStats]_vars

(* the window of a rolling-average call *)
Window == arg.v \div Scale

(* the positions of the window ending at position i *)
Slice(i) == (i - Window + 1)..i

(* the positions holding a value *)
Present == {i \in 1..Len(values) : ~isnan(values[i])}

(* C15: for 1 <= window <= length, rolling_average returns as many entries *)
(* as it was given; entry i is missing before the first full window, and   *)
(* from there on it is missing exactly when the window ending at i holds a *)
(* missing value, and else the arithmetic mean of that window; with        *)
(* window 1 the output equals the input                                    *)
C15_RollingAverage ==
    (op = "calculate_rolling_average" /\ 1 <= Window /\ Window <= Len(values)) =>
        /\ result.kind = "ok"
        /\ Len(result.val) = Len(values)
        /\ \A i \in 1..Len(values) :
            /\ i < Window => isnan(result.val[i])
            /\ i >= Window =>
                /\ isnan(result.val[i]) <=> (\E j \in Slice(i) : isnan(values[j]))
                /\ ~isnan(result.val[i]) =>
                      /\ result.val[i].k = "num"
                      /\ result.val[i].v * Window =
                            SumOver([j \in Slice(i) |-> values[j].v], Slice(i))
        /\ Window = 1 => result.val = values

(* a call with a window of 2 that returns a leading missing entry, a mean  *)
(* and an entry missing because of a missing value in its window           *)
C15_Witness ==
    /\ op = "calculate_rolling_average"
    /\ Window = 2
    /\ values = <<Num(0), Num(60 * Scale), NaN>>
    /\ result.kind = "ok"
    /\ result.val = <<NaN, Num(30 * Scale), NaN>>

(* C16: rolling_average fails with ValueError exactly when window < 1 or   *)
(* window > length, so for every window on the empty array, and returns    *)
(* an array otherwise; a failure returns no output                         *)
C16_InvalidWindow ==
    op = "calculate_rolling_average" =>
        /\ result.kind \in {"ok", "err"}
        /\ result.kind = "err" <=> (Window < 1 \/ Window > Len(values))
        /\ result.kind = "err" => result.exc = "ValueError" /\ result.val = <<>>
        /\ Len(values) = 0 => result.kind = "err"

(* a window equal to the length is accepted *)
C16_Witness ==
    /\ op = "calculate_rolling_average"
    /\ Len(values) = 3 /\ Window = 3
    /\ result.kind = "ok"

(* C17: mean fails with the empty-input error on no entries, with the      *)
(* all-missing error when every entry is missing, and else returns the     *)
(* arithmetic mean of exactly the non-missing entries, never a missing     *)
(* value                                                                   *)
C17_DailyMean ==
    op = "calculate_daily_mean" =>
        /\ Len(values) = 0 =>
              result = Raise("ValueError", "Cannot calculate mean of empty array")
        /\ (Len(values) > 0 /\ Present = {}) =>
              result = Raise("ValueError", "Cannot calculate mean: all values are NaN")
        /\ Present # {} =>
              /\ result.kind = "ok"
              /\ result.val.k = "num"
              /\ result.val.v * Cardinality(Present) =
                    SumOver([i \in Present |-> values[i].v], Present)

(* a mean over an array with a missing entry *)
C17_Witness ==
    /\ op = "calculate_daily_mean"
    /\ values = <<Num(60 * Scale), NaN, Num(120 * Scale)>>
    /\ result = Ok(Num(90 * Scale))

(* the number of non-missing entries strictly above t *)
Above(t) == Cardinality({i \in Present : values[i].v > t.v})

(* C18: exceedance_count returns the number of non-missing entries         *)
(* strictly above the threshold, for negative thresholds too, and 0 for    *)
(* the empty array; the count does not increase with the threshold         *)
C18_ExceedanceCount ==
    op = "calculate_exceedance_count" =>
        /\ result = Ok(Above(arg))
        /\ Len(values) = 0 => result.val = 0
        /\ \A t \in StatThresholds :
              t.v >= arg.v =>
                  calculate_exceedance_count(values, t).val <= result.val

(* a negative threshold, an entry equal to it, a missing entry and two     *)
(* entries above it                                                        *)
C18_Witness ==
    /\ op = "calculate_exceedance_count"
    /\ arg = Num(-60 * Scale)
    /\ values = <<Num(-60 * Scale), NaN, Num(0), Num(60 * Scale)>>
    /\ result.val = 2

-----------------------------------------------------------------------------
(* trends.py: calculate_linear_trend                                       *)
(*                                                                         *)
(* The argument dates is a record [kind, data]: kind is the Python type    *)
(* the conversion branches on, data the sequence of its entries, each a    *)
(* day Day(d) or missing (NaN; NaT in an input of datetimes).  The model's *)
(* calendar counts days from 0001-01-01, so that toordinal(Day(d)) = d.    *)
(* Values are floats in hundredths as everywhere else.                     *)

MaxPoints == 3

(* np.datetime64('NaT') read as a number is the least 64-bit integer; at   *)
(* the width of the model, a day count below every date                    *)
iNaT == -4

Day(d) == [k |-> "num", v |-> d]

(* an exact quotient num/den, den > 0 *)
Frac(num, den) == [k |-> "frac", num |-> num, den |-> den]

(* pd.Series of datetimes; np.ndarray of dtype datetime64; np.ndarray or   *)
(* list of numbers; any other sequence of dates, such as a DatetimeIndex   *)
DateKinds == {"Series", "datetime64", "float", "DatetimeIndex"}

(* What a missing date becomes depends on the libraries installed:         *)
(* Timestamp.toordinal applied to NaT returns the ordinal of NaT's         *)
(* underlying datetime (1) or raises; NaT cast to float is the number      *)
(* iNaT or, in a build that maps it, NaN                                   *)
NaTOutcomes(kind) ==
    IF kind = "Series" THEN {"number", "TypeError", "ValueError"}
    ELSE IF kind = "float" THEN {"nan"}
    ELSE {"number", "nan"}

(* stats.linregress on identical x values raises, or in older releases     *)
(* divides zero by zero                                                    *)
IdenticalOutcomes == {"raise", "nan"}

has_nat(data) == \E i \in 1..Len(data) : isnan(data[i])

(* pd.to_datetime(dates).map(pd.Timestamp.toordinal), when it returns *)
map_toordinal(data) ==
    Series([i \in 1..Len(data) |-> IF isnan(data[i]) THEN Day(1) ELSE data[i]])

(* the cast of datetime64 entries to float *)
astype_float(data, nat) ==
    Series([i \in 1..Len(data) |->
        IF isnan(data[i]) THEN (IF nat = "nan" THEN NaN ELSE Day(iNaT))
        ELSE data[i]])

(* dates_array, with the unit and the origin of its numbers *)
dates_to_array(dates_in, nat) ==
    IF dates_in.kind = "Series"
    THEN IF has_nat(dates_in.data) /\ nat # "number"
         THEN Raise(nat, "NaTType does not support toordinal")
         ELSE Ok([unit |-> "day", origin |-> "ordinal", x |-> map_toordinal(dates_in.data)])
    ELSE IF dates_in.kind = "datetime64"
    THEN Ok([unit |-> "day", origin |-> "epoch", x |-> astype_float(dates_in.data, nat)])
    ELSE IF dates_in.kind = "float"
    THEN Ok([unit |-> "given", origin |-> "given", x |-> dates_in.data])
    ELSE Ok([unit |-> "ns", origin |-> "epoch", x |-> astype_float(dates_in.data, nat)])

(* the sum of the entries of a numeric array *)
np_sum(a) == SumTo([i \in 1..Len(a) |-> a[i].v], Len(a))

(* the sum of the products of the entries of two arrays *)
np_dot(a, b) == SumTo([i \in 1..Len(a) |-> a[i].v * b[i].v], Len(a))

(* mutant: the product of the sums is not subtracted *)
ssxym_uncentred(x, y) == Len(x) * np_dot(x, y)

(* n*n times the covariance of x and y: n*sum(x*y) - sum(x)*sum(y) *)
ssxym(x, y) == Len(x) * np_dot(x, y) - np_sum(x) * np_sum(y)

(* the two-sided p-value of the slope: exact for two points and for a      *)
(* zero correlation, else a tail of the t distribution with n - 2 degrees  *)
(* of freedom, kept symbolic                                               *)
p_value_of(n, y, sxy, sxx, syy) ==
    IF n = 2 THEN (IF y[1] = y[2] THEN Num(Scale) ELSE Num(0))
    ELSE IF sxy = 0 \/ syy = 0 THEN Num(Scale)
    ELSE [k |-> "tdist", df |-> n - 2, num |-> sxy * sxy, den |-> sxx * syy]

(* mutant: the correlation keeps its sign *)
r_squared_signed(sxy, sxx, syy) ==
    IF sxx = 0 \/ syy = 0 THEN Frac(0, 1)
    ELSE Frac((IF sxy < 0 THEN -1 ELSE 1) * sxy * sxy, sxx * syy)

(* r_value ** 2, r_value being 0 when x or y has no variance *)
r_squared_of(sxy, sxx, syy) ==
    IF sxx = 0 \/ syy = 0 THEN Frac(0, 1) ELSE Frac(sxy * sxy, sxx * syy)

(* stats.linregress(x, y) on arrays without missing entries, len >= 2 *)
linregress(x, y, identical) ==
    LET n == Len(x)
        sxx == ssxym(x, x)
        sxy == ssxym(x, y)
        syy == ssxym(y, y)
        r_sq == r_squared_of(sxy, sxx, syy)
    IN  IF sxx = 0
        THEN IF identical = "raise"
             THEN Raise("ValueError",
                        "Cannot calculate a linear regression if all x values are identical")
             ELSE Ok([slope |-> NaN, intercept |-> NaN, r_sq |-> r_sq,
                      p_value |-> p_value_of(n, y, 0, sxx, syy)])
        ELSE Ok([slope |-> Frac(sxy, sxx),
                 intercept |-> Frac(np_sum(y) * sxx - sxy * np_sum(x), n * sxx),
                 r_sq |-> r_sq,
                 p_value |-> p_value_of(n, y, sxy, sxx, syy)])

calculate_linear_trend(dates_in, vals, nat, identical) ==
    LET conv == dates_to_array(dates_in, nat)
    IN  IF conv.kind = "err" THEN conv
        ELSE
        LET dates_array == conv.val.x
        IN  IF Len(dates_array) # Len(vals)
            THEN Raise("ValueError", "dates and values must have same length")
            ELSE IF Len(dates_array) < 2
            THEN Raise("ValueError", "At least 2 data points required for linear regression")
            ELSE
            LET mask == Series([i \in 1..Len(vals) |->
                            ~(isnan(dates_array[i]) \/ isnan(vals[i]))])
                kept == SelectIdx(mask, Len(vals), 1)
                dates_clean == Series([j \in 1..Len(kept) |-> dates_array[kept[j]]])
                values_clean == Series([j \in 1..Len(kept) |-> vals[kept[j]]])
            IN  IF Len(dates_clean) < 2
                THEN Raise("ValueError", "At least 2 valid (non-NaN) data points required")
                ELSE
                LET fit == linregress(dates_clean, values_clean, identical)
                IN  IF fit.kind = "err" THEN fit
                    ELSE Ok([slope |-> fit.val.slope,
                             intercept |-> fit.val.intercept,
                             r_squared |-> fit.val.r_sq,
                             p_value |-> fit.val.p_value,
                             unit |-> conv.val.unit,
                             origin |-> conv.val.origin])

TrendDays == {NaN} \cup {Day(d) : d \in 1..3}

TrendValues == {NaN} \cup {Num(v * Scale) : v \in 1..3}

(* sequences of (date, value) pairs *)
PointSeqs == UNION {[1..n -> TrendDays \X TrendValues] : n \in 0..MaxPoints}

(* the first n - 1 entries of a non-empty sequence, else the sequence *)
Front(q) == IF Len(q) = 0 THEN q ELSE SubSeq(q, 1, Len(q) - 1)

(* the arguments: paired dates and values, or one of them an entry short *)
InitTrend ==
    /\ df = [n |-> 0, cols |-> {}, Date |-> <<>>, PM25 |-> <<>>]
    /\ tieRev = FALSE
    /\ op = "none"
    /\ arg = NaN
    /\ result = NoResult
    /\ \E pts \in PointSeqs, kind \in DateKinds, short \in {"none", "dates", "values"} :
        LET ds == Series([i \in 1..Len(pts) |-> pts[i][1]])
            vs == Series([i \in 1..Len(pts) |-> pts[i][2]])
        IN  /\ dates = [kind |-> kind,
                        data |-> IF short = "dates" THEN Front(ds) ELSE ds]
            /\ values = IF short = "values" THEN Front(vs) ELSE vs

LinearTrend ==
    /\ op = "none"
    /\ \E nat \in NaTOutcomes(dates.kind), identical \in IdenticalOutcomes :
        result' = calculate_linear_trend(dates, values, nat, identical)
    /\ op' = "calculate_linear_trend"
    /\ UNCHANGED <<df, tieRev, arg, dates, values>>

NextTrend == LinearTrend

SpecTrend == InitTrend /\ [][NextTrend]_vars

(* the pairs with a date and a value, when there are as many dates as values *)
ValidPairs ==
    {i \in 1..Len(values) : ~isnan(dates.data[i]) /\ ~isnan(values[i])}

(* the call failed for want of two usable points *)
InsufficientData ==
    /\ result.kind = "err"
    /\ result.exc = "ValueError"
    /\ result.msg \in {"At least 2 data points required for linear regression",
                       "At least 2 valid (non-NaN) data points required"}

(* the arguments without the pairs that miss a date or a value *)
CleanDates ==
    LET kept == SelectIdx([i \in 1..Len(values) |-> i \in ValidPairs], Len(values), 1)
    IN  [kind |-> dates.kind, data |-> Series([j \in 1..Len(kept) |-> dates.data[kept[j]]])]

CleanValues ==
    LET kept == SelectIdx([i \in 1..Len(values) |-> i \in ValidPairs], Len(values), 1)
    IN  Series([j \in 1..Len(kept) |-> values[kept[j]]])

(* C19: linear_trend fails with the length-mismatch error whenever there   *)
(* are not as many dates as values, before any other outcome; otherwise it *)
(* fails for insufficient data exactly when fewer than 2 pairs have both a *)
(* date and a value; and when it succeeds, the result is the result on the *)
(* arguments with the incomplete pairs removed                             *)
C19_MissingPairsDiscarded ==
    op = "calculate_linear_trend" =>
        /\ Len(dates.data) # Len(values) =>
              result = Raise("ValueError", "dates and values must have same length")
        /\ Len(dates.data) = Len(values) =>
              /\ InsufficientData <=> Cardinality(ValidPairs) < 2
              /\ result.kind = "ok" =>
                    \E identical \in IdenticalOutcomes :
                        result = calculate_linear_trend(CleanDates, CleanValues,
                                                        "nan", identical)

(* the dates are all present and strictly increasing *)
DatesIncreasing ==
    /\ \A i \in 1..Len(dates.data) : ~isnan(dates.data[i])
    /\ \A i \in 1..(Len(dates.data) - 1) : dates.data[i].v < dates.data[i + 1].v

(* the sign of the returned slope *)
SlopeSign ==
    IF result.val.slope.num > 0 THEN 1 ELSE IF result.val.slope.num < 0 THEN -1 ELSE 0

GrowsPerDay ==
    /\ Len(dates.data) = Len(values) /\ Len(values) >= 2
    /\ \A i \in 1..Len(values) : ~isnan(dates.data[i]) /\ ~isnan(values[i])
    /\ \A i \in 1..(Len(values) - 1) :
        /\ dates.data[i + 1].v = dates.data[i].v + 1
        /\ values[i + 1].v - values[i].v = values[2].v - values[1].v

(* C21: dates are converted to a day count, so that values growing by k    *)
(* per consecutive calendar day give a slope of k per day, whether the     *)
(* dates come as a Series, a datetime64 array or another date sequence     *)
(* such as a date range index                                              *)
C21_SlopePerDay ==
    (/\ op = "calculate_linear_trend"
     /\ dates.kind \in {"Series", "datetime64", "DatetimeIndex"}
     /\ GrowsPerDay) =>
        /\ result.kind = "ok"
        /\ result.val.slope.k = "frac"
        /\ result.val.slope.num = (values[2].v - values[1].v) * result.val.slope.den
        /\ values[2].v # values[1].v => result.val.unit = "day"

(* the complete points lie on one line that is neither flat nor vertical *)
Collinear ==
    /\ \A i, j, l \in ValidPairs :
        (values[j].v - values[i].v) * (dates.data[l].v - dates.data[i].v) =
        (values[l].v - values[i].v) * (dates.data[j].v - dates.data[i].v)
    /\ \E i, j \in ValidPairs : values[i].v # values[j].v
    /\ \E i, j \in ValidPairs : dates.data[i].v # dates.data[j].v

(* the returned p-value is a probability: 0 or 1 where it is exact, else   *)
(* the two-sided tail of a t distribution with at least one degree of      *)
(* freedom at the statistic of a correlation that is not zero              *)
PValueIsProbability ==
    \/ result.val.p_value \in {Num(0), Num(Scale)}
    \/ /\ result.val.p_value.k = "tdist"
       /\ result.val.p_value.df >= 1
       /\ 0 < result.val.p_value.num
       /\ result.val.p_value.num <= result.val.p_value.den

C23_FiniteOutputs ==
    (/\ op = "calculate_linear_trend"
     /\ Len(dates.data) = Len(values)
     /\ Cardinality(ValidPairs) >= 2) =>
        /\ result.kind = "ok"
        /\ result.val.slope.k = "frac" /\ result.val.slope.den > 0
        /\ result.val.intercept.k = "frac" /\ result.val.intercept.den > 0
        /\ result.val.r_squared.k = "frac" /\ result.val.r_squared.den > 0
        /\ PValueIsProbability

-----------------------------------------------------------------------------
(* trends.py: calculate_seasonal_average, calculate_monthly_statistics     *)
(*                                                                         *)
(* The table is a record [n, cols, date, value]; a date is a record        *)
(* [year, month], the day of the month playing no part; in a series the    *)
(* rows come in ascending date order.                                      *)

MaxRecords == 3

(* df_copy['date'].dt.month, for one date *)
dt_month(date) == date.month

season_months ==
    [winter |-> {12, 1, 2}, spring |-> {3, 4, 5},
     summer |-> {6, 7, 8}, fall |-> {9, 10, 11}]

valid_seasons == {"winter", "spring", "summer", "fall", "autumn"}

(* the season names passed by callers *)
SeasonNames ==
    {"winter", "WINTER", "Winter", "spring", "Spring", "summer", "SUMMER",
     "fall", "Fall", "autumn", "AUTUMN", "", "winter2024", "invalid_season"}

(* str.lower() on those names *)
str_lower(name) ==
    CASE name \in {"WINTER", "Winter"} -> "winter"
      [] name = "Spring" -> "spring"
      [] name = "SUMMER" -> "summer"
      [] name = "Fall" -> "fall"
      [] name = "AUTUMN" -> "autumn"
      [] OTHER -> name

(* mutant: an aggregate over no value is 0 *)
skipna_mean_zero(col) ==
    LET clean == remove_nan(col)
    IN  IF Len(clean) = 0 THEN Num(0) ELSE np_mean(clean)

(* Series.mean(): the mean of the non-missing entries, missing if none *)
skipna_mean(col) ==
    LET clean == remove_nan(col)
    IN  IF Len(clean) = 0 THEN NaN ELSE np_mean(clean)

(* the test 'date' not in df.columns or 'value' not in df.columns *)
lacks_columns(d) == "date" \notin d.cols \/ "value" \notin d.cols

(* mutant: December is left out of winter *)
months_of_without_december(season_lower) == season_months[season_lower] \ {12}

(* season_months[season_lower] *)
months_of(season_lower) == season_months[season_lower]

calculate_seasonal_average(d, season) ==
    IF lacks_columns(d)
    THEN Raise("KeyError", "DataFrame must contain 'date' and 'value' columns")
    ELSE IF str_lower(season) \notin valid_seasons
    THEN Raise("ValueError", "Invalid season")
    ELSE
    LET season_lower == IF str_lower(season) = "autumn" THEN "fall" ELSE str_lower(season)
        months == months_of(season_lower)
        isin == Series([i \in 1..d.n |-> dt_month(d.date[i]) \in months])
        kept == SelectIdx(isin, d.n, 1)
        seasonal_data == Series([j \in 1..Len(kept) |-> d.value[kept[j]]])
    IN  IF Len(seasonal_data) = 0
        THEN Raise("ValueError", "No data found for season")
        ELSE Ok(skipna_mean(seasonal_data))

(* the entries of a numeric array in ascending order *)
np_sort(a) ==
    LET order == argsort(Series([i \in 1..Len(a) |-> <<a[i].v>>]), FALSE)
    IN  Series([r \in 1..Len(a) |-> a[order[r]]])

(* Series.median(): the middle entry, or the mean of the two middle ones,  *)
(* of the non-missing entries; missing if there is none                    *)
skipna_median(col) ==
    LET clean == np_sort(remove_nan(col))
        m == Len(clean)
    IN  IF m = 0 THEN NaN
        ELSE IF m % 2 = 1 THEN clean[(m + 1) \div 2]
        ELSE Num((clean[m \div 2].v + clean[m \div 2 + 1].v) \div 2)

(* Series.min() and Series.max(), missing entries skipped *)
skipna_min(col) ==
    LET clean == np_sort(remove_nan(col))
    IN  IF Len(clean) = 0 THEN NaN ELSE clean[1]

skipna_max(col) ==
    LET clean == np_sort(remove_nan(col))
    IN  IF Len(clean) = 0 THEN NaN ELSE clean[Len(clean)]

(* mutant: count is the size of the group *)
group_size(col) == Len(col)

(* Series.count(): the number of non-missing entries *)
skipna_count(col) == Len(remove_nan(col))

calculate_monthly_statistics(d) ==
    IF lacks_columns(d)
    THEN Raise("KeyError", "DataFrame must contain 'date' and 'value' columns")
    ELSE
    LET month == Series([i \in 1..d.n |-> dt_month(d.date[i])])
        keys == sorted_keys({month[i] : i \in 1..d.n})
        group(m) ==
            LET kept == SelectIdx([i \in 1..d.n |-> month[i] = m], d.n, 1)
            IN  Series([j \in 1..Len(kept) |-> d.value[kept[j]]])
    IN  Ok(Series([r \in 1..Len(keys) |->
            LET col == group(keys[r])
            IN  [month |-> keys[r],
                 mean |-> skipna_mean(col),
                 median |-> skipna_median(col),
                 min |-> skipna_min(col),
                 max |-> skipna_max(col),
                 count |-> skipna_count(col)]]))

(* the caller's table when calculate_seasonal_average is left *)
caller_after_seasonal(d, season) ==
    IF lacks_columns(d) \/ str_lower(season) \notin valid_seasons THEN d
    ELSE LET df_copy == copy(heap_of(d), "caller")
         IN  set_column(set_column(df_copy.heap, df_copy.ref, "date"),
                        df_copy.ref, "month").caller

(* the caller's table when calculate_monthly_statistics is left *)
caller_after_monthly(d) ==
    IF lacks_columns(d) THEN d
    ELSE LET df_copy == copy(heap_of(d), "caller")
         IN  set_column(set_column(df_copy.heap, df_copy.ref, "date"),
                        df_copy.ref, "month").caller

(* dates of two years, in months around every change of season *)
TableDates == {[year |-> y, month |-> m] : y \in 1..2, m \in {1, 2, 3, 6, 11, 12}}

DateBefore(a, b) == a.year < b.year \/ (a.year = b.year /\ a.month <= b.month)

(* date columns in ascending order; several rows may fall in one month *)
SeriesDates(n) ==
    {ds \in [1..n -> TableDates] : \A i \in 1..(n - 1) : DateBefore(ds[i], ds[i + 1])}

SeriesValues == {NaN, Num(60 * Scale), Num(120 * Scale)}

(* tables lacking the date or the value column *)
ColumnlessTables ==
    {[n |-> n, cols |-> c,
      date |-> IF "date" \in c THEN [i \in 1..n |-> [year |-> 1, month |-> i]] ELSE <<>>,
      value |-> IF "value" \in c THEN [i \in 1..n |-> Num(60 * Scale)] ELSE <<>>] :
        n \in 0..MaxRecords, c \in {{}, {"date"}, {"value"}, {"city"}}}

(* a series with both columns, or a table lacking one *)
InitSeason ==
    /\ \/ \E n \in 0..MaxRecords :
            \E ds \in SeriesDates(n), vs \in [1..n -> SeriesValues] :
                df = [n |-> n, cols |-> {"date", "value"}, date |-> ds, value |-> vs]
       \/ df \in ColumnlessTables
    /\ tieRev = FALSE
    /\ op = "none"
    /\ arg = NaN
    /\ result = NoResult
    /\ dates = <<>>
    /\ values = <<>>

SeasonalAverage ==
    /\ op = "none"
    /\ \E season \in SeasonNames :
        /\ arg' = season
        /\ result' = calculate_seasonal_average(df, season)
        /\ df' = caller_after_seasonal(df, season)
    /\ op' = "calculate_seasonal_average"
    /\ UNCHANGED <<tieRev, dates, values>>

MonthlyStatistics ==
    /\ op = "none"
    /\ op' = "calculate_monthly_statistics"
    /\ result' = calculate_monthly_statistics(df)
    /\ df' = caller_after_monthly(df)
    /\ UNCHANGED <<tieRev, arg, dates, values>>

NextSeason == SeasonalAverage \/ MonthlyStatistics

SpecSeason == InitSeason /\ [][NextSeason]_vars

(* the table has the date and the value column *)
HasDateAndValue == {"date", "value"} \subseteq df.cols

(* the seasons as published, and the season a name designates whatever its *)
(* case, autumn being fall; "none" for an unrecognized name                *)
Seasons ==
    [winter |-> {12, 1, 2}, spring |-> {3, 4, 5},
     summer |-> {6, 7, 8}, fall |-> {9, 10, 11}]

SeasonNamed(name) ==
    CASE name \in {"winter", "WINTER", "Winter"} -> "winter"
      [] name \in {"spring", "Spring"} -> "spring"
      [] name \in {"summer", "SUMMER"} -> "summer"
      [] name \in {"fall", "Fall", "autumn", "AUTUMN"} -> "fall"
      [] OTHER -> "none"

(* the rows of the season that hold a value *)
InSeason(name) ==
    {i \in 1..df.n : /\ df.date[i].month \in Seasons[SeasonNamed(name)]
                     /\ ~isnan(df.value[i])}

(* C24: seasonal_average is the arithmetic mean of the non-missing values  *)
(* of the rows whose month is in the season, over all years; names match   *)
(* whatever their case and autumn gives what fall gives; the four seasons  *)
(* partition the months 1..12                                              *)
C24_SeasonalMean ==
    (/\ op = "calculate_seasonal_average"
     /\ HasDateAndValue
     /\ SeasonNamed(arg) # "none"
     /\ InSeason(arg) # {}) =>
        /\ result.kind = "ok"
        /\ result.val.k = "num"
        /\ result.val.v * Cardinality(InSeason(arg)) =
              SumOver([i \in InSeason(arg) |-> df.value[i].v], InSeason(arg))
        /\ \A other \in SeasonNames :
              SeasonNamed(other) = SeasonNamed(arg) =>
                  calculate_seasonal_average(df, other) = result
        /\ \A m \in 1..12 :
              Cardinality({q \in DOMAIN season_months : m \in months_of(q)}) = 1
        /\ \A q \in DOMAIN Seasons : months_of(q) = Seasons[q]

(* winter asked in capitals of a series running from November of one year *)
(* to January of the next                                                  *)
C24_Witness ==
    /\ op = "calculate_seasonal_average"
    /\ arg = "WINTER"
    /\ df.n = 3
    /\ df.date = <<[year |-> 1, month |-> 11], [year |-> 1, month |-> 12],
                   [year |-> 2, month |-> 1]>>
    /\ df.value = <<Num(120 * Scale), Num(60 * Scale), Num(120 * Scale)>>
    /\ result = Ok(Num(90 * Scale))

(* C25: seasonal_average fails for a missing column when date or value is  *)
(* absent, for an invalid season on every unrecognized name, and for no    *)
(* data whenever the season holds no non-missing value; it never returns   *)
(* a missing value                                                         *)
C25_NoDataRaises ==
    op = "calculate_seasonal_average" =>
        /\ ~HasDateAndValue => result.kind = "err" /\ result.exc = "KeyError"
        /\ (HasDateAndValue /\ SeasonNamed(arg) = "none") =>
              result = Raise("ValueError", "Invalid season")
        /\ (HasDateAndValue /\ SeasonNamed(arg) # "none" /\ InSeason(arg) = {}) =>
              result = Raise("ValueError", "No data found for season")
        /\ result.kind = "ok" => ~isnan(result.val)

(* the values of month m that are present *)
ValuesOfMonth(m) ==
    {i \in 1..df.n : df.date[i].month = m /\ ~isnan(df.value[i])}

(* the row satisfies min <= median <= max and min <= mean <= max *)
Ordered(row) ==
    /\ Le(row.min, row.median) /\ Le(row.median, row.max)
    /\ Le(row.min, row.mean) /\ Le(row.mean, row.max)

C27_MonthlyRows ==
    (op = "calculate_monthly_statistics" /\ HasDateAndValue) =>
        /\ result.kind = "ok"
        /\ {result.val[r].month : r \in 1..Len(result.val)} =
              {df.date[i].month : i \in 1..df.n}
        /\ \A r \in 1..(Len(result.val) - 1) :
              result.val[r].month < result.val[r + 1].month
        /\ SumOver([r \in 1..Len(result.val) |-> result.val[r].count],
                   1..Len(result.val)) =
              Cardinality({i \in 1..df.n : ~isnan(df.value[i])})
        /\ \A r \in 1..Len(result.val) :
            LET row == result.val[r]
                V == ValuesOfMonth(row.month)
            IN  /\ row.count = Cardinality(V)
                /\ V # {} =>
                    /\ row.mean.v * Cardinality(V) = SumOver([i \in V |-> df.value[i].v], V)
                    /\ \E i \in V : row.min = df.value[i]
                    /\ \A i \in V : row.min.v <= df.value[i].v
                    /\ \E i \in V : row.max = df.value[i]
                    /\ \A i \in V : row.max.v >= df.value[i].v
                    /\ row.median.k = "num"
                    /\ 2 * Cardinality({i \in V : df.value[i].v < row.median.v}) <= Cardinality(V)
                    /\ 2 * Cardinality({i \in V : df.value[i].v > row.median.v}) <= Cardinality(V)
                    /\ Cardinality(V) % 2 = 1 => \E i \in V : row.median = df.value[i]

(* December of one year before January of the next, a value missing: the   *)
(* rows come out as January, then December                                 *)
C27_Witness ==
    /\ op = "calculate_monthly_statistics"
    /\ df.n = 3
    /\ df.date = <<[year |-> 1, month |-> 12], [year |-> 1, month |-> 12],
                   [year |-> 2, month |-> 1]>>
    /\ df.value = <<Num(60 * Scale), NaN, Num(120 * Scale)>>
    /\ result.kind = "ok"
    /\ Len(result.val) = 2
    /\ result.val[1].month = 1
    /\ result.val[2].month = 12 /\ result.val[2].count = 1

-----------------------------------------------------------------------------
(* All the operations on tables together: a table of either layout, one    *)
(* call on it                                                              *)

InitFrame ==
    \/ Init /\ df.n < MaxRows
    \/ InitSeason /\ df.n < MaxRecords

NextFrame == Next \/ NextSeason

SpecFrame == InitFrame /\ [][NextFrame]_vars

(* a second call with the arguments of the call that led to this state     *)
(* can give the result it gave                                             *)
Repeatable ==
    CASE op = "by_threshold" ->
            result = identify_extremes_threshold(df, arg, tieRev)
      [] op = "by_percentile" ->
            \E emptyRaises \in BOOLEAN :
                result = identify_extremes_percentile(df, arg, tieRev, emptyRaises)
      [] op = "consecutive_runs" ->
            result = identify_consecutive_exceedances(df, arg)
      [] op = "calculate_seasonal_average" ->
            result = calculate_seasonal_average(df, arg)
      [] op = "calculate_monthly_statistics" ->
            result = calculate_monthly_statistics(df)
      [] OTHER -> TRUE

(* C28: by_threshold, by_percentile, consecutive_runs, seasonal_average    *)
(* and monthly_statistics leave the caller's table as it was, rows, order, *)
(* columns and values, whether they return or raise, so that a second call *)
(* with the same arguments gives the same result                           *)
C28_InputUnchanged == [][df' = df]_vars /\ []Repeatable

(* a seasonal average has been returned for a series of several rows, and  *)
(* the series has no month column                                          *)
C28_Witness ==
    /\ op = "calculate_seasonal_average"
    /\ result.kind = "ok"
    /\ df.n >= 2
    /\ df.cols = {"date", "value"}

-----------------------------------------------------------------------------
(* Further properties of the detector *)

(* some returned episode spans both rows *)
SameEpisode(i, j) ==
    \E e \in 1..Len(result.val) : {i, j} \subseteq RowsOf(result.val[e])

(* C29: consecutive_runs forms its runs from the exceed-mask alone: two    *)
(* exceeding rows next to each other in date order are in one episode      *)
(* however many days lie between their dates, and the duration counts the  *)
(* rows; a row with a missing value between two exceeding rows puts them   *)
(* in different episodes                                                   *)
C29_GapsMerged ==
    (op = "consecutive_runs" /\ ValidThreshold /\ ~empty(df) /\ HasBothColumns) =>
        /\ result.kind = "ok"
        /\ \A i \in 1..df.n :
              (Exceeding(i) /\ Later(i) # {} /\ Exceeding(Following(i))) =>
                  SameEpisode(i, Following(i))
        /\ \A e \in 1..Len(result.val) :
              result.val[e].duration = Cardinality(RowsOf(result.val[e]))
        /\ \A i, j, l \in 1..df.n :
              (/\ Exceeding(i) /\ Exceeding(j) /\ isnan(df.PM25[l])
               /\ df.Date[i] < df.Date[l] /\ df.Date[l] < df.Date[j]) =>
                  ~SameEpisode(i, j)

(* two exceeding rows two or more days apart with no row in between: one   *)
(* episode of duration 2                                                   *)
C29_Witness ==
    /\ Returned("consecutive_runs")
    /\ df.n = 2
    /\ Len(result.val) = 1
    /\ result.val[1].duration = 2
    /\ result.val[1].end_date - result.val[1].start_date >= 2

(* C30: for a non-empty series and a threshold >= 0, by_threshold returns  *)
(* as many rows as exceedance_count counts in the values of the series,    *)
(* and the durations of the episodes of consecutive_runs add up to the     *)
(* same number                                                             *)
C30_ExceedanceDefinitionsAgree ==
    (ValidThreshold /\ ~empty(df) /\ HasBothColumns) =>
        /\ op = "by_threshold" =>
              /\ result.kind = "ok"
              /\ Len(result.val) = calculate_exceedance_count(df.PM25, arg).val
        /\ op = "consecutive_runs" =>
              /\ result.kind = "ok"
              /\ SumOver([e \in 1..Len(result.val) |-> result.val[e].duration],
                         1..Len(result.val))
                    = calculate_exceedance_count(df.PM25, arg).val

(* by_threshold on a series with a missing value, a value equal to the     *)
(* threshold and a value above it                                          *)
C30_Witness ==
    /\ Returned("by_threshold")
    /\ arg = Num(Scale)
    /\ \E i \in 1..df.n : isnan(df.PM25[i])
    /\ \E i \in 1..df.n : df.PM25[i] = Num(Scale)
    /\ Len(result.val) >= 1

=============================================================================
